---- MODULE Spec2Model ----
(***************************************************************************)
(* State-machine model of apu-code-collab-api: the users, refresh_tokens   *)
(* and github_repositories tables, the JWT access/refresh tokens handed to *)
(* clients, and the request handlers of the auth, user and github routers. *)
(*                                                                         *)
(* Time is counted in ticks of the server clock, the resolution of the exp  *)
(* claim of a JWT; the two token lifetimes are scaled down to one and two  *)
(* ticks.  A JWT is modelled by its payload: jwt.encode is deterministic   *)
(* (HS256, fixed key), so two tokens with the same payload are the same    *)
(* string.                                                                 *)
(***************************************************************************)
EXTENDS Integers, Sequences, FiniteSets, TLC

VARIABLES
    users,                \* rows of table "users"
    refresh_tokens,       \* rows of table "refresh_tokens"
    github_repositories,  \* rows of table "github_repositories"
    now,                  \* datetime.now(timezone.utc), in ticks
    next_id,              \* number of cuids generated so far
    issued,               \* every JWT the server has signed and returned
    frameworks,           \* rows of table "frameworks"
    programming_languages,  \* rows of table "programming_languages"
    university_courses,   \* rows of table "university_courses"
    seen,                 \* the rows a client has received while following
                          \* next_cursor, in the order received
    resp                  \* the response to the last request

vars == <<users, refresh_tokens, github_repositories, now, next_id, issued,
          frameworks, programming_languages, university_courses, seen, resp>>

-----------------------------------------------------------------------------
(* Bounds of the model *)

MaxIds == 4           \* cuids generated in one behaviour
RefreshTTL == 2       \* REFRESH_TOKEN_EXPIRE_DAYS, in ticks (scaled down)
MaxTime == RefreshTTL + 1   \* the clock stops once every token has expired

-----------------------------------------------------------------------------
(* Values *)

\* ACCESS_TOKEN_EXPIRE_MINUTES, in ticks (scaled down)
AccessTTL == 1

STUDENT == "student"
TEACHER == "teacher"
ADMIN == "admin"
UserRole == {STUDENT, TEACHER, ADMIN}

None == "None"

\* APU ids are strings; a string is a tuple of characters so that
\* str.startswith and the regex can be computed.
TP1 == <<"T", "P", "0", "0", "0", "0", "0", "1">>
TC1 == <<"T", "C", "0", "0", "0", "0", "0", "1">>
AD1 == <<"A", "D", "0", "0", "0", "0", "0", "1">>

\* str.startswith(prefix)
startswith(s, prefix) ==
    /\ Len(s) >= Len(prefix)
    /\ SubSeq(s, 1, Len(prefix)) = prefix

\* The absent token (cookie not sent) and a string that is no JWT signed with
\* JWT_SECRET_KEY.
NoToken == [id |-> 0, sub |-> <<>>, role |-> "", type |-> "none", exp |-> 0]
Garbage == [id |-> 0, sub |-> <<>>, role |-> "", type |-> "garbage", exp |-> 0]

\* security.get_password_hash / security.verify_password (bcrypt)
get_password_hash(password) == <<"bcrypt", password>>
verify_password(plain_password, hashed_password) ==
    hashed_password = <<"bcrypt", plain_password>>

-----------------------------------------------------------------------------
(* Responses *)

NoResp ==
    [op |-> "none", arg |-> NoToken, status |-> 0, code |-> "", access_token |-> NoToken,
     refresh_token |-> NoToken, cookie |-> "untouched", cookie_value |-> NoToken,
     user |-> 0, apu_id |-> <<>>, email |-> None, password |-> None, role |-> None,
     repo |-> 0]

Response(op, arg, status, code) ==
    [NoResp EXCEPT !.op = op, !.arg = arg, !.status = status, !.code = code]

-----------------------------------------------------------------------------
(* Queries of user/service.py *)

get_user_by_apu_id(apu_id) == {u \in users : u.apu_id = apu_id}
get_user_by_id(user_id) == {u \in users : u.id = user_id}

\* User.is_admin, used by the controllers
is_admin(u) == u.role = ADMIN

\* User.set_role_from_id: the role the before-validator leaves in values
set_role_from_id(apu_id, role) ==
    IF Len(apu_id) > 0
    THEN IF startswith(apu_id, <<"T", "P">>) THEN STUDENT
         ELSE IF startswith(apu_id, <<"T", "C">>) THEN TEACHER
         ELSE role
    ELSE role

-----------------------------------------------------------------------------
(* JWTs: auth/service.py *)

jwt_encode(user_id, apu_id, role, type, exp) ==
    [id |-> user_id, sub |-> apu_id, role |-> role, type |-> type, exp |-> exp]

create_refresh_token(user_id, apu_id, role, expires_delta) ==
    jwt_encode(user_id, apu_id, role, "refresh", now + expires_delta)

create_access_token(user_id, apu_id, role, expires_delta) ==
    jwt_encode(user_id, apu_id, role, "access", now + expires_delta)

\* jwt.decode: the signature is checked first, then the exp claim
jwt_decode(token) ==
    IF token.type \in {"garbage", "none"} THEN "InvalidTokenError"
    ELSE IF token.exp <= now THEN "ExpiredSignatureError"
    ELSE "payload"

\* verify_token without its type check
token_type_unchecked(token_type, expected_type) == TRUE

\* The type check of verify_token (line 265)
token_type_ok(token_type, expected_type) == token_type = expected_type

\* verify_token: "OK" or the error_code of the AuthenticationError it raises.
\* The AuthenticationErrors raised inside the try block are themselves caught by
\* "except Exception" and re-raised as TOKEN_VERIFICATION_FAILED.
verify_token(token, expected_type) ==
    LET decoded == jwt_decode(token) IN
    IF decoded = "ExpiredSignatureError" THEN "TOKEN_EXPIRED"
    ELSE IF decoded = "InvalidTokenError" THEN "INVALID_TOKEN"
    ELSE IF token.id = 0 \/ Len(token.sub) = 0 THEN "TOKEN_VERIFICATION_FAILED"
    ELSE IF ~token_type_ok(token.type, expected_type) THEN "TOKEN_VERIFICATION_FAILED"
    ELSE "OK"

\* get_current_user without its is_active check
get_current_user_code_any_user(token) ==
    LET v == verify_token(token, "access") IN
    IF v # "OK" THEN v
    ELSE IF get_user_by_id(token.id) = {} THEN "USER_NOT_FOUND"
    ELSE "OK"

\* get_current_user: "OK" or the error_code it raises
get_current_user_code(token) ==
    LET v == verify_token(token, "access") IN
    IF v # "OK" THEN v
    ELSE IF get_user_by_id(token.id) = {} THEN "USER_NOT_FOUND"
    ELSE IF \E u \in get_user_by_id(token.id) : ~u.is_active THEN "USER_NOT_ACTIVE"
    ELSE "OK"

\* the tokens a client can put into a request: whatever the server has
\* returned so far, or a string that is no valid JWT
Presentable == issued \cup {Garbage}

-----------------------------------------------------------------------------
Init ==
    /\ users = {}
    /\ refresh_tokens = {}
    /\ github_repositories = {}
    /\ now = 0
    /\ next_id = 0
    /\ issued = {}
    /\ frameworks = {}
    /\ programming_languages = {}
    /\ university_courses = {}
    /\ seen = <<>>
    /\ resp = NoResp

\* the server clock advances
Tick ==
    /\ now < MaxTime
    /\ now' = now + 1
    /\ UNCHANGED <<users, refresh_tokens, github_repositories, next_id, issued, resp,
                   frameworks, programming_languages, university_courses, seen>>

-----------------------------------------------------------------------------
(* User creation: user/service.py, auth/controller.py, user/controller.py *)

CreateUserRequest(apu_id, email, password, role, github_access_token) ==
    [apu_id |-> apu_id, email |-> email, password |-> password, role |-> role,
     is_active |-> TRUE, github_id |-> None, github_username |-> None,
     github_access_token |-> github_access_token, github_avatar_url |-> None]

\* The WHERE clause of ensure_user_is_unique: TRUE when a row matches, that is,
\* when UserAlreadyExistsException is raised
ensure_user_is_unique(email, apu_id) ==
    \E u \in users :
        /\ u.apu_id = apu_id
        /\ (email # None => u.email = email)

\* the unique indexes of table users (NULL emails do not collide)
users_unique_violation(request) ==
    \E u \in users :
        \/ u.apu_id = request.apu_id
        \/ (request.email # None /\ u.email = request.email)

\* User(...) built as if set_role_from_id were applied to the constructor's
\* values
entity_role_validated(request) == set_role_from_id(request.apu_id, request.role)

\* the role of the entity User(role=request.role, ...) built by create_user.
\* SQLModel fills a table=True entity from the constructor's arguments without
\* running pydantic validation, so neither the field constraints of User nor
\* its before-validator set_role_from_id act on it.
entity_role(request) == request.role

\* create_user (service): the new users table, counter and response
create_user(op, body_role, request) ==
    IF users_unique_violation(request)
    THEN \* IntegrityError on commit, rolled back
         /\ resp' = [Response(op, NoToken, 409, "ConflictException")
                        EXCEPT !.apu_id = request.apu_id, !.email = request.email,
                               !.role = body_role]
         /\ UNCHANGED <<users, next_id>>
    ELSE /\ next_id < MaxIds
         /\ next_id' = next_id + 1
         /\ users' = users \cup
                {[id |-> next_id + 1,
                  apu_id |-> request.apu_id,
                  email |-> request.email,
                  password_hash |-> get_password_hash(request.password),
                  is_active |-> TRUE,
                  role |-> entity_role(request),
                  github_id |-> request.github_id,
                  github_username |-> request.github_username,
                  github_access_token |-> request.github_access_token,
                  github_avatar_url |-> request.github_avatar_url]}
         /\ resp' = [Response(op, NoToken, 201, "OK")
                        EXCEPT !.user = next_id + 1, !.apu_id = request.apu_id,
                               !.email = request.email, !.role = body_role]

\* POST /api/v1/auth/register
register_user(apu_id, email, password, role) ==
    /\ create_user("register", role,
                   CreateUserRequest(apu_id, email, password, STUDENT, None))
    /\ UNCHANGED <<refresh_tokens, github_repositories, now, issued,
                   frameworks, programming_languages, university_courses, seen>>

\* POST /api/v1/users
create_user_endpoint(apu_id, email, password, role, github_access_token) ==
    /\ IF ensure_user_is_unique(email, apu_id)
       THEN /\ resp' = [Response("create_user", NoToken, 409, "UserAlreadyExistsException")
                           EXCEPT !.apu_id = apu_id, !.email = email, !.role = role]
            /\ UNCHANGED <<users, next_id>>
       ELSE create_user("create_user", role,
                        CreateUserRequest(apu_id, email, password, role, github_access_token))
    /\ UNCHANGED <<refresh_tokens, github_repositories, now, issued,
                   frameworks, programming_languages, university_courses, seen>>

-----------------------------------------------------------------------------
(* Authentication: auth/service.py, auth/controller.py *)

\* authenticate_user: the users the credentials authenticate (none: it raises)
authenticate_user(apu_id, password) ==
    {u \in get_user_by_apu_id(apu_id) : verify_password(password, u.password_hash)}

\* a row stored with the access token in place of the refresh token
RefreshTokenRow_wrong_token(row_id, user_id, token) ==
    [id |-> row_id, user_id |-> user_id,
     token |-> [token EXCEPT !.type = "access", !.exp = now + AccessTTL],
     revoked |-> FALSE, expires_at |-> now + RefreshTTL, revoked_at |-> None]

\* the row login_for_access_token adds
RefreshTokenRow(row_id, user_id, token) ==
    [id |-> row_id, user_id |-> user_id, token |-> token, revoked |-> FALSE,
     expires_at |-> now + RefreshTTL, revoked_at |-> None]

\* POST /api/v1/auth/token
login_for_access_token(username, password) ==
    /\ IF authenticate_user(username, password) = {}
       THEN /\ resp' = [Response("login", NoToken, 401, "AUTHENTICATION_FAILED")
                           EXCEPT !.apu_id = username, !.password = password]
            /\ UNCHANGED <<refresh_tokens, next_id, issued>>
       ELSE \E user \in authenticate_user(username, password) :
            LET access_token ==
                    create_access_token(user.id, user.apu_id, user.role, AccessTTL)
                refresh_token ==
                    create_refresh_token(user.id, user.apu_id, user.role, RefreshTTL)
            IN  /\ next_id < MaxIds
                /\ next_id' = next_id + 1
                /\ refresh_tokens' = refresh_tokens \cup
                       {RefreshTokenRow(next_id + 1, user.id, refresh_token)}
                /\ issued' = issued \cup {access_token, refresh_token}
                /\ resp' = [Response("login", NoToken, 200, "OK")
                               EXCEPT !.apu_id = username,
                                      !.password = password,
                                      !.user = user.id,
                                      !.access_token = access_token,
                                      !.refresh_token = refresh_token,
                                      !.cookie = "set",
                                      !.cookie_value = refresh_token]
    /\ UNCHANGED <<users, github_repositories, now,
                   frameworks, programming_languages, university_courses, seen>>

\* the SELECT without its "revoked == False" condition
select_refresh_token_any(old_token_str) ==
    {r \in refresh_tokens : r.token = old_token_str}

\* the SELECT of refresh_access_token (lines 166-171)
select_refresh_token(old_token_str) ==
    {r \in refresh_tokens : r.token = old_token_str /\ r.revoked = FALSE}

\* the refresh token refresh_access_token puts into its TokenResponse (line 204)
refreshed_refresh_token(old_token_str) == old_token_str

\* POST /api/v1/auth/refresh
refresh_access_token(refresh_token) ==
    /\ IF refresh_token = NoToken
       THEN /\ resp' = Response("refresh", refresh_token, 401, "REFRESH_TOKEN_MISSING")
            /\ UNCHANGED issued
       ELSE IF verify_token(refresh_token, "refresh") # "OK"
       THEN /\ resp' = Response("refresh", refresh_token, 401,
                                verify_token(refresh_token, "refresh"))
            /\ UNCHANGED issued
       ELSE IF select_refresh_token(refresh_token) = {}
       THEN /\ resp' = Response("refresh", refresh_token, 401, "TOKEN_REVOKED")
            /\ UNCHANGED issued
       ELSE \E db_token \in select_refresh_token(refresh_token) :
            IF db_token.expires_at < now
            THEN /\ resp' = Response("refresh", refresh_token, 401, "TOKEN_EXPIRED")
                 /\ UNCHANGED issued
            ELSE IF get_user_by_apu_id(refresh_token.sub) = {}
            THEN /\ resp' = Response("refresh", refresh_token, 401, "AUTHENTICATION_FAILED")
                 /\ UNCHANGED issued
            ELSE \E user \in get_user_by_apu_id(refresh_token.sub) :
                 LET new_access_token ==
                         create_access_token(user.id, user.apu_id, user.role, AccessTTL)
                 IN  /\ issued' = issued \cup {new_access_token}
                     /\ resp' = [Response("refresh", refresh_token, 200, "OK")
                                    EXCEPT !.user = user.id,
                                           !.access_token = new_access_token,
                                           !.refresh_token =
                                               refreshed_refresh_token(refresh_token),
                                           !.cookie = "set",
                                           !.cookie_value =
                                               refreshed_refresh_token(refresh_token)]
    /\ UNCHANGED <<users, refresh_tokens, github_repositories, now, next_id,
                   frameworks, programming_languages, university_courses, seen>>

\* the SELECT of revoke_refresh_token (lines 219-221)
select_token_to_revoke(refresh_token) ==
    {r \in refresh_tokens : r.token = refresh_token}

\* the row revoke_refresh_token writes back (lines 230-231); no handler reads
\* revoked_at, of which the model keeps only that it is set
revoked_row(db_token) ==
    [db_token EXCEPT !.revoked = TRUE, !.revoked_at = "datetime"]

\* POST /api/v1/auth/logout
logout(refresh_token) ==
    /\ IF refresh_token = NoToken
       THEN /\ resp' = [Response("logout", refresh_token, 200, "Logged out successfully")
                           EXCEPT !.cookie = "deleted"]
            /\ UNCHANGED refresh_tokens
       ELSE IF select_token_to_revoke(refresh_token) = {}
       THEN /\ resp' = Response("logout", refresh_token, 401, "TOKEN_REVOKED")
            /\ UNCHANGED refresh_tokens
       ELSE \E db_token \in select_token_to_revoke(refresh_token) :
            /\ refresh_tokens' =
                   (refresh_tokens \ {db_token}) \cup {revoked_row(db_token)}
            /\ resp' = [Response("logout", refresh_token, 200, "Logged out successfully")
                           EXCEPT !.cookie = "deleted"]
    /\ UNCHANGED <<users, github_repositories, now, next_id, issued,
                   frameworks, programming_languages, university_courses, seen>>

\* a request to an endpoint that depends on CurrentActiveUser (GET /users/me)
get_current_user(token) ==
    /\ resp' = IF get_current_user_code(token) = "OK"
               THEN [Response("get_current_user", token, 200, "OK")
                        EXCEPT !.user = token.id]
               ELSE Response("get_current_user", token, 401, get_current_user_code(token))
    /\ UNCHANGED <<users, refresh_tokens, github_repositories, now, next_id, issued,
                   frameworks, programming_languages, university_courses, seen>>

-----------------------------------------------------------------------------
(* User administration: user/controller.py, user/service.py *)

\* ON DELETE CASCADE of refresh_tokens.user_id and github_repositories.user_id
cascade(rows, user_id) == {r \in rows : r.user_id # user_id}

\* DELETE /api/v1/users/{user_id}.  The controller awaits the result of the
\* synchronous user_service.delete_user, so the request ends in a TypeError after
\* the deletion has been committed.
delete_user(token, user_id) ==
    /\ IF get_current_user_code(token) # "OK"
       THEN /\ resp' = Response("delete_user", token, 401, get_current_user_code(token))
            /\ UNCHANGED <<users, refresh_tokens, github_repositories>>
       ELSE IF \E caller \in get_user_by_id(token.id) : ~is_admin(caller)
       THEN /\ resp' = Response("delete_user", token, 403, "FORBIDDEN")
            /\ UNCHANGED <<users, refresh_tokens, github_repositories>>
       ELSE IF get_user_by_id(user_id) = {}
       THEN /\ resp' = Response("delete_user", token, 404, "UserDoesNotExistException")
            /\ UNCHANGED <<users, refresh_tokens, github_repositories>>
       ELSE /\ users' = users \ get_user_by_id(user_id)
            /\ refresh_tokens' = cascade(refresh_tokens, user_id)
            /\ github_repositories' = cascade(github_repositories, user_id)
            /\ resp' = [Response("delete_user", token, 500, "TypeError")
                           EXCEPT !.user = user_id]
    /\ UNCHANGED <<now, next_id, issued,
                   frameworks, programming_languages, university_courses, seen>>

\* user_service.admin_update_user_profile: the row with the is_active of the
\* AdminUpdateUserRequest
admin_update_user_profile(db_user, is_active) ==
    [db_user EXCEPT !.is_active = is_active]

\* PUT /api/v1/users/{user_id}
update_user_by_id(token, user_id, is_active) ==
    /\ IF get_current_user_code(token) # "OK"
       THEN /\ resp' = Response("update_user_by_id", token, 401,
                                get_current_user_code(token))
            /\ UNCHANGED users
       ELSE IF \E caller \in get_user_by_id(token.id) : ~is_admin(caller)
       THEN /\ resp' = Response("update_user_by_id", token, 403, "FORBIDDEN")
            /\ UNCHANGED users
       ELSE IF get_user_by_id(user_id) = {}
       THEN /\ resp' = Response("update_user_by_id", token, 404,
                                "UserDoesNotExistException")
            /\ UNCHANGED users
       ELSE /\ users' = {IF u.id = user_id THEN admin_update_user_profile(u, is_active)
                         ELSE u : u \in users}
            /\ resp' = [Response("update_user_by_id", token, 200, "OK")
                           EXCEPT !.user = user_id]
    /\ UNCHANGED <<refresh_tokens, github_repositories, now, next_id, issued,
                   frameworks, programming_languages, university_courses, seen>>

-----------------------------------------------------------------------------
(* Linked repositories: github/controller.py, github/service.py *)

\* the unique constraints uix_user_id_name and url, and the foreign key user_id
repo_integrity_error(user_id, repo_name, url) ==
    \/ get_user_by_id(user_id) = {}
    \/ \E r \in github_repositories :
          \/ (r.user_id = user_id /\ r.name = repo_name)
          \/ r.url = url

\* POST /api/v1/github/repos
link_repo_local(token, user_id, repo_name, url) ==
    /\ IF get_current_user_code(token) # "OK"
       THEN /\ resp' = Response("link_repo", token, 401, get_current_user_code(token))
            /\ UNCHANGED <<github_repositories, next_id>>
       ELSE IF \E user \in get_user_by_id(token.id) : user.github_access_token = None
       THEN /\ resp' = Response("link_repo", token, 401, "GitHub access token required")
            /\ UNCHANGED <<github_repositories, next_id>>
       ELSE IF repo_integrity_error(user_id, repo_name, url)
       THEN /\ resp' = Response("link_repo", token, 500, "IntegrityError")
            /\ UNCHANGED <<github_repositories, next_id>>
       ELSE /\ next_id < MaxIds
            /\ next_id' = next_id + 1
            /\ github_repositories' = github_repositories \cup
                   {[id |-> next_id + 1, user_id |-> user_id, name |-> repo_name,
                     url |-> url]}
            /\ resp' = [Response("link_repo", token, 200, "OK") EXCEPT !.user = token.id]
    /\ UNCHANGED <<users, refresh_tokens, now, issued,
                   frameworks, programming_languages, university_courses, seen>>

\* the SELECT of delete_linked_repo (lines 155-157)
select_repo(repo_id) == {r \in github_repositories : r.id = repo_id}

\* delete_linked_repo without its ownership check
is_owner_unchecked(db_repo, user_id) == TRUE

\* the ownership check of delete_linked_repo (line 166)
is_owner(db_repo, user_id) == db_repo.user_id = user_id

\* delete_linked_repo (service): the status it ends with and the table it leaves
delete_linked_repo(user_id, repo_id) ==
    IF select_repo(repo_id) = {}
    THEN [status |-> 404, code |-> "Repository not found", table |-> github_repositories]
    ELSE LET db_repo == CHOOSE r \in select_repo(repo_id) : TRUE IN
         IF ~is_owner(db_repo, user_id)
         THEN [status |-> 403,
               code |-> "You do not have permission to delete this repository",
               table |-> github_repositories]
         ELSE [status |-> 200, code |-> "OK", table |-> github_repositories \ {db_repo}]

\* DELETE /api/v1/github/repos/local/{id}
delete_local_repo(token, id) ==
    /\ IF get_current_user_code(token) # "OK"
       THEN /\ resp' = Response("delete_repo", token, 401, get_current_user_code(token))
            /\ UNCHANGED github_repositories
       ELSE IF \E user \in get_user_by_id(token.id) : user.github_access_token = None
       THEN /\ resp' = Response("delete_repo", token, 401, "GitHub access token required")
            /\ UNCHANGED github_repositories
       ELSE LET result == delete_linked_repo(token.id, id) IN
            /\ github_repositories' = result.table
            /\ resp' = [Response("delete_repo", token, result.status, result.code)
                           EXCEPT !.user = token.id, !.repo = id]
    /\ UNCHANGED <<users, refresh_tokens, now, next_id, issued,
                   frameworks, programming_languages, university_courses, seen>>

-----------------------------------------------------------------------------
(* Request inputs *)

Passwords == {"pw1", "pw2"}
Emails == {None, "a@apu", "b@apu"}
ApuIds == {TP1, TC1, AD1}
GithubTokens == {None, "gho_1"}
RepoNames == {"repo1", "repo2"}
Urls == {"url1", "url2"}
RequestRoles == UserRole \cup {None}

-----------------------------------------------------------------------------
(* The authentication life cycle: accounts, login, refresh, logout, the
   CurrentActiveUser dependency, and the administration that removes or
   deactivates an account. *)

AccessTokens == {t \in issued : t.type = "access"}

\* the ids of the users table and one id that no row has
UserIds == {u.id : u \in users} \cup {next_id + 1}

\* One account at a time: a student account made by /auth/register or an
\* administrator made by POST /users, which can delete or deactivate itself.
AuthNext ==
    \/ Tick
    \/ users = {} /\ register_user(TP1, None, "pw1", None)
    \/ users = {} /\ create_user_endpoint(AD1, None, "pw1", ADMIN, None)
    \/ \E apu_id \in {TP1, AD1}, password \in Passwords :
          login_for_access_token(apu_id, password)
    \/ \E t \in Presentable \cup {NoToken} : refresh_access_token(t)
    \/ \E t \in Presentable \cup {NoToken} : logout(t)
    \/ \E t \in Presentable : get_current_user(t)
    \/ \E t \in AccessTokens, user_id \in UserIds : delete_user(t, user_id)
    \/ \E t \in AccessTokens, user_id \in UserIds, is_active \in BOOLEAN :
          update_user_by_id(t, user_id, is_active)

AuthSpec == Init /\ [][AuthNext]_vars

-----------------------------------------------------------------------------
(* Account creation: /auth/register and POST /users with every kind of APU id,
   e-mail and role. *)

UserNext ==
    \/ \E apu_id \in ApuIds, email \in Emails, role \in RequestRoles :
          register_user(apu_id, email, "pw1", role)
    \/ \E apu_id \in ApuIds, email \in Emails, role \in {STUDENT, ADMIN} :
          create_user_endpoint(apu_id, email, "pw1", role, None)

UserSpec == Init /\ [][UserNext]_vars

-----------------------------------------------------------------------------
(* Linked repositories: two accounts, with or without a GitHub token, that link
   and delete repositories. *)

RepoIds == {r.id : r \in github_repositories} \cup {next_id + 1}

RepoNext ==
    \/ \E apu_id \in {TP1, TC1}, token \in GithubTokens :
          create_user_endpoint(apu_id, None, "pw1", STUDENT, token)
    \/ \E apu_id \in {TP1, TC1} : login_for_access_token(apu_id, "pw1")
    \/ \E t \in AccessTokens, user_id \in UserIds, name \in RepoNames, url \in Urls :
          link_repo_local(t, user_id, name, url)
    \/ \E t \in AccessTokens, id \in RepoIds : delete_local_repo(t, id)

RepoSpec == Init /\ [][RepoNext]_vars

-----------------------------------------------------------------------------
(* Repository listing: github/service.py get_all_local_repos_hydrated.

   A cursor is a string; the model keeps it as a sequence of tokens, one per
   formatted field, with "|" as a token of its own.  str(int) gives an "int"
   token, datetime.isoformat() an "iso" token, a cuid an "id" token; anything
   else a client may type is a "junk" token.  The rows here carry the fields
   the query reads: created_at and the ids of the linked programming languages
   and frameworks.  Of the optional filters the model keeps skills; search,
   apu_id and github_username add WHERE conjuncts of the same kind. *)

MaxRepos == 3         \* rows of github_repositories in the listing

Bar == [k |-> "|", v |-> 0]
IntTok(n) == [k |-> "int", v |-> n]
IsoTok(t) == [k |-> "iso", v |-> t]
IdTok(i) == [k |-> "id", v |-> i]
JunkTok == [k |-> "junk", v |-> 0]

\* no cursor parameter (None or the empty string: "if cursor:" is false)
NoCursor == <<>>

\* str.split("|")
RECURSIVE split(_)
split(str) ==
    IF \A i \in 1..Len(str) : str[i] # Bar
    THEN <<str>>
    ELSE LET i == CHOOSE i \in 1..Len(str) :
                      str[i] = Bar /\ \A j \in 1..(i - 1) : str[j] # Bar
         IN  <<SubSeq(str, 1, i - 1)>> \o split(SubSeq(str, i + 1, Len(str)))

\* int(s) and datetime.fromisoformat(s): whether they return or raise ValueError
int_ok(part) == Len(part) = 1 /\ part[1].k = "int"
fromisoformat_ok(part) == Len(part) = 1 /\ part[1].k = "iso"

\* a parser that reads a score it cannot convert as 0
parse_cursor_default_score(cursor) ==
    LET parts == split(cursor)
        bad == [ok |-> FALSE, c_score |-> 0, c_time |-> 0, c_id |-> <<>>]
    IN  IF Len(parts) = 3
        THEN IF ~fromisoformat_ok(parts[2]) THEN bad
             ELSE [ok |-> TRUE,
                   c_score |-> IF int_ok(parts[1]) THEN parts[1][1].v ELSE 0,
                   c_time |-> parts[2][1].v, c_id |-> parts[3]]
        ELSE IF Len(parts) < 2 THEN bad
        ELSE IF ~fromisoformat_ok(parts[1]) THEN bad
        ELSE [ok |-> TRUE, c_score |-> 0, c_time |-> parts[1][1].v,
              c_id |-> parts[2]]

\* The try block of lines 786-801: the (c_score, c_time, c_id) it computes, or
\* ok = FALSE when it leaves through "except (ValueError, IndexError)"
parse_cursor(cursor) ==
    LET parts == split(cursor)
        bad == [ok |-> FALSE, c_score |-> 0, c_time |-> 0, c_id |-> <<>>]
    IN  IF Len(parts) = 3
        THEN IF ~int_ok(parts[1]) \/ ~fromisoformat_ok(parts[2]) THEN bad
             ELSE [ok |-> TRUE, c_score |-> parts[1][1].v,
                   c_time |-> parts[2][1].v, c_id |-> parts[3]]
        ELSE IF Len(parts) < 2 THEN bad
        ELSE IF ~fromisoformat_ok(parts[1]) THEN bad
        ELSE [ok |-> TRUE, c_score |-> 0, c_time |-> parts[1][1].v,
              c_id |-> parts[2]]

\* GithubRepository.id < c_id in SQL: ids compare as strings; a c_id that is no
\* id of the table sorts before every id
id_less(repo_id, c_id) ==
    Len(c_id) = 1 /\ c_id[1].k = "id" /\ repo_id < c_id[1].v

has_preferences(user) ==
    user.preferred_programming_languages # {} \/ user.preferred_frameworks # {}

\* The SQL expression relevance_score (lines 753-765)
relevance_score(user, repo) ==
    IF has_preferences(user)
    THEN IF \/ repo.programming_languages \cap user.preferred_programming_languages # {}
            \/ repo.frameworks \cap user.preferred_frameworks # {}
         THEN 1 ELSE 0
    ELSE 0

\* the skills filter (lines 773-783): names of the linked languages and
\* frameworks; an empty list, like None, filters nothing
skills_where(skills, repo) ==
    \/ skills = {}
    \/ \E pl \in programming_languages :
          pl.id \in repo.programming_languages /\ pl.name \in skills
    \/ \E fw \in frameworks :
          fw.id \in repo.frameworks /\ fw.name \in skills

\* a keyset clause that keeps the cursor's own row
cursor_where_inclusive(user, c, repo) ==
    LET score == relevance_score(user, repo) IN
    \/ score < c.c_score
    \/ score = c.c_score /\ repo.created_at < c.c_time
    \/ /\ score = c.c_score
       /\ repo.created_at = c.c_time
       /\ (id_less(repo.id, c.c_id) \/ c.c_id = <<IdTok(repo.id)>>)

\* the keyset clause of lines 806-820
cursor_where(user, c, repo) ==
    LET score == relevance_score(user, repo) IN
    \/ score < c.c_score
    \/ score = c.c_score /\ repo.created_at < c.c_time
    \/ score = c.c_score /\ repo.created_at = c.c_time /\ id_less(repo.id, c.c_id)

\* ORDER BY without the relevance term
comes_before_by_time(user, a, b) ==
    \/ a.created_at > b.created_at
    \/ a.created_at = b.created_at /\ a.id > b.id

\* ORDER BY relevance_score DESC (when has_preferences), created_at DESC, id DESC
comes_before(user, a, b) ==
    \/ relevance_score(user, a) > relevance_score(user, b)
    \/ /\ relevance_score(user, a) = relevance_score(user, b)
       /\ \/ a.created_at > b.created_at
          \/ a.created_at = b.created_at /\ a.id > b.id

RECURSIVE ordered(_, _)
ordered(user, rows) ==
    IF rows = {} THEN <<>>
    ELSE LET first == CHOOSE a \in rows : \A b \in rows \ {a} : comes_before(user, a, b)
         IN  <<first>> \o ordered(user, rows \ {first})

\* the rows of the statement: WHERE, ORDER BY, LIMIT
db_repos(user, limit, skills, cursor) ==
    LET c == parse_cursor(cursor)
        rows == {repo \in github_repositories :
                    /\ skills_where(skills, repo)
                    /\ (cursor # NoCursor /\ c.ok) => cursor_where(user, c, repo)}
        all == ordered(user, rows)
    IN  SubSeq(all, 1, IF Len(all) < limit THEN Len(all) ELSE limit)

\* a cursor score that is always 0
l_score_zero(user, last_repo) == 0

\* l_score, recomputed in Python for the cursor (lines 834-843)
l_score(user, last_repo) ==
    IF has_preferences(user)
    THEN IF \/ last_repo.programming_languages \cap user.preferred_programming_languages # {}
            \/ last_repo.frameworks \cap user.preferred_frameworks # {}
         THEN 1 ELSE 0
    ELSE 0

\* next_cursor (lines 830-845)
next_cursor(user, limit, rows) ==
    IF Len(rows) = limit /\ rows # <<>>
    THEN LET last_repo == rows[Len(rows)] IN
         <<IntTok(l_score(user, last_repo)), Bar, IsoTok(last_repo.created_at), Bar,
           IdTok(last_repo.id)>>
    ELSE NoCursor

\* get_all_local_repos_hydrated, up to the rows it selects and the cursor it
\* returns
get_all_local_repos_hydrated(user, limit, skills, cursor) ==
    LET rows == db_repos(user, limit, skills, cursor) IN
    /\ resp' = [op |-> "get_repos", user |-> user.id, limit |-> limit,
                skills |-> skills, cursor |-> cursor, status |-> 200,
                items |-> rows, next_cursor |-> next_cursor(user, limit, rows)]
    /\ UNCHANGED <<users, refresh_tokens, github_repositories, now, next_id, issued,
                   frameworks, programming_languages, university_courses>>

\* the rows a table of the listing may hold
PagedRepo ==
    {r \in [created_at : 1..2, programming_languages : {{}, {1}}, frameworks : {{}, {1}}] :
        r.programming_languages = {} \/ r.frameworks = {}}

PagedTables ==
    UNION {{{[id |-> i, created_at |-> f[i].created_at,
              programming_languages |-> f[i].programming_languages,
              frameworks |-> f[i].frameworks] : i \in ids} :
                f \in [ids -> PagedRepo]} : ids \in SUBSET (1..MaxRepos)}

PageInit ==
    /\ users \in {{[id |-> 1, apu_id |-> TP1, github_access_token |-> "gho_1",
                   preferred_programming_languages |-> pls,
                   preferred_frameworks |-> fws]} :
                     pls \in {{}, {1}}, fws \in {{}, {1}}}
    /\ github_repositories \in PagedTables
    /\ programming_languages = {[id |-> 1, name |-> "python"]}
    /\ frameworks = {[id |-> 1, name |-> "fastapi"]}
    /\ university_courses = {}
    /\ refresh_tokens = {}
    /\ issued = {}
    /\ now = 0
    /\ next_id = 0
    /\ seen = <<>>
    /\ resp = [op |-> "none"]

\* what a client may send as cursor besides one it was given
TypedCursors ==
    {<<JunkTok>>,
     <<IsoTok(1)>>,
     <<JunkTok, Bar, IsoTok(1), Bar, IdTok(1)>>,
     <<IntTok(1), Bar, JunkTok, Bar, IdTok(1)>>,
     <<JunkTok, Bar, IdTok(1)>>,
     <<IntTok(1), Bar, IsoTok(1), Bar, IdTok(1), Bar, JunkTok>>,
     <<IsoTok(2), Bar, IdTok(2)>>,
     <<IsoTok(1), Bar, JunkTok>>}

Limits == 1..2
SkillFilters == {{}, {"python"}}

\* the cursor a client that follows the listing sends next
following == seen[Len(seen)]

\* A client sends either one request with a cursor of its own making, or a
\* request without cursor followed by requests with the next_cursor it got.
PageNext ==
    \/ \E user \in users, limit \in Limits, cursor \in TypedCursors :
          /\ resp.op = "none"
          /\ get_all_local_repos_hydrated(user, limit, {}, cursor)
          /\ UNCHANGED seen
    \/ \E user \in users, limit \in Limits, skills \in SkillFilters :
          /\ resp.op = "none"
          /\ get_all_local_repos_hydrated(user, limit, skills, NoCursor)
          /\ seen' = Append(seen, resp')
    \/ \E user \in users :
          /\ seen # <<>>
          /\ following.next_cursor # NoCursor
          /\ get_all_local_repos_hydrated(user, following.limit, following.skills,
                                          following.next_cursor)
          /\ seen' = Append(seen, resp')

PageSpec == PageInit /\ [][PageNext]_vars

-----------------------------------------------------------------------------
(* Properties *)

\* a step that is the request op (every handler answers; only Tick moves the
\* clock)
Request(op) == now' = now /\ resp'.op = op

\* t is a JWT the server signed, of the given type, whose exp has not passed
ValidJwt(t, type) == t \in issued /\ t.type = type /\ t.exp > now

\* the rows that hold the token t
RowsOf(t) == {r \in refresh_tokens : r.token = t}

\* C1: after a logout has revoked refresh token t (a row of t is revoked),
\* every refresh with t, as long as the JWT itself has not expired, fails with
\* TOKEN_REVOKED and returns no access token, and no revoked row becomes
\* unrevoked.
C1_RevokedTokenStaysRejected ==
    [][/\ (/\ Request("refresh")
           /\ ValidJwt(resp'.arg, "refresh")
           /\ \E r \in RowsOf(resp'.arg) : r.revoked)
            => (resp'.code = "TOKEN_REVOKED" /\ resp'.access_token = NoToken)
       /\ \A r \in refresh_tokens, q \in refresh_tokens' :
            (r.id = q.id /\ r.revoked) => q.revoked]_vars

\* C2: a refresh succeeds only with a valid refresh JWT that has a stored,
\* unrevoked, unexpired row; a stored unrevoked row whose expires_at has passed
\* gives TOKEN_EXPIRED; a valid refresh JWT with no row gives TOKEN_REVOKED; a
\* failing refresh returns no access token and changes no row.
C2_RefreshContract ==
    [][Request("refresh") =>
        LET t == resp'.arg IN
        /\ resp'.code = "OK" =>
              /\ ValidJwt(t, "refresh")
              /\ \E r \in RowsOf(t) : ~r.revoked /\ r.expires_at >= now
              /\ resp'.access_token \in issued'
              /\ resp'.access_token.type = "access"
        /\ (\E r \in RowsOf(t) : ~r.revoked /\ r.expires_at < now)
              => resp'.code = "TOKEN_EXPIRED"
        /\ (ValidJwt(t, "refresh") /\ RowsOf(t) = {})
              => resp'.code = "TOKEN_REVOKED"
        /\ resp'.code # "OK" =>
              /\ resp'.access_token = NoToken
              /\ issued' = issued
        /\ refresh_tokens' = refresh_tokens]_vars

\* C2 witness: a valid refresh JWT whose row is gone was answered TOKEN_REVOKED
C2_Witness ==
    /\ resp.op = "refresh"
    /\ resp.code = "TOKEN_REVOKED"
    /\ ValidJwt(resp.arg, "refresh")
    /\ RowsOf(resp.arg) = {}

\* C3: a successful refresh rotates the refresh token: the one returned in the
\* body and the cookie differs from the one presented, and the presented one
\* has no usable row left.
C3_Rotation ==
    [][(Request("refresh") /\ resp'.code = "OK") =>
        /\ resp'.refresh_token # resp'.arg
        /\ resp'.cookie_value # resp'.arg
        /\ ~\E r \in refresh_tokens' : r.token = resp'.arg /\ ~r.revoked]_vars

\* C4: a successful login adds exactly one row, unrevoked, of the authenticated
\* user, holding the refresh token that is returned and set as the cookie; a
\* login whose credentials do not authenticate adds no row and returns no token.
C4_LoginStoresOneRow ==
    [][Request("login") =>
        LET authenticated ==
                {u \in users : /\ u.apu_id = resp'.apu_id
                               /\ u.password_hash = <<"bcrypt", resp'.password>>}
        IN
        IF authenticated # {}
        THEN /\ resp'.code = "OK"
             /\ resp'.user \in {u.id : u \in authenticated}
             /\ \E row \in refresh_tokens' \ refresh_tokens :
                   /\ refresh_tokens' = refresh_tokens \cup {row}
                   /\ \A r \in refresh_tokens : r.id # row.id
                   /\ row.revoked = FALSE
                   /\ row.user_id = resp'.user
                   /\ row.token = resp'.refresh_token
             /\ resp'.refresh_token.type = "refresh"
             /\ resp'.access_token.type = "access"
             /\ resp'.cookie = "set"
             /\ resp'.cookie_value = resp'.refresh_token
        ELSE /\ resp'.code # "OK"
             /\ refresh_tokens' = refresh_tokens
             /\ issued' = issued
             /\ resp'.access_token = NoToken
             /\ resp'.refresh_token = NoToken
             /\ resp'.cookie = "untouched"]_vars

\* C4 witness: a second successful login of the same account in the same tick,
\* which stores a second row with the same token
C4_Witness ==
    /\ resp.op = "login"
    /\ resp.code = "OK"
    /\ Cardinality(RowsOf(resp.refresh_token)) = 2

\* C5: verify_token accepts a token only for the type in its type claim, so a
\* refresh token never passes get_current_user and an access token never
\* passes refresh_access_token.
C5_TokenTypesNotInterchangeable ==
    /\ \A t \in Presentable, expected_type \in {"access", "refresh"} :
          verify_token(t, expected_type) = "OK" => t.type = expected_type
    /\ (resp.op = "get_current_user" /\ resp.arg.type = "refresh") => resp.code # "OK"
    /\ (resp.op = "refresh" /\ resp.arg.type = "access") =>
          (resp.code # "OK" /\ resp.access_token = NoToken)

\* C5 witness: an unexpired refresh token was presented as a bearer token and
\* refused
C5_Witness ==
    /\ resp.op = "get_current_user"
    /\ ValidJwt(resp.arg, "refresh")
    /\ resp.code # "OK"
    /\ \E u \in users : u.id = resp.arg.id /\ u.is_active

\* C6: get_current_user returns a user only for a verifying access token of an
\* existing, active user; a verifying token of a user that is gone gives
\* USER_NOT_FOUND and one of an inactive user gives USER_NOT_ACTIVE, whenever
\* the token was obtained.
C6_CurrentUserIsActive ==
    [][Request("get_current_user") =>
        LET t == resp'.arg IN
        /\ resp'.code = "OK" =>
              /\ ValidJwt(t, "access")
              /\ \E u \in users : u.id = t.id /\ u.is_active /\ resp'.user = u.id
        /\ (ValidJwt(t, "access") /\ ~\E u \in users : u.id = t.id)
              => resp'.code = "USER_NOT_FOUND"
        /\ (ValidJwt(t, "access") /\ \E u \in users : u.id = t.id /\ ~u.is_active)
              => resp'.code = "USER_NOT_ACTIVE"]_vars

\* C6 witness: an unexpired access token of a deactivated account was answered
\* USER_NOT_ACTIVE
C6_Witness ==
    /\ resp.op = "get_current_user"
    /\ resp.code = "USER_NOT_ACTIVE"
    /\ ValidJwt(resp.arg, "access")
    /\ \E u \in users : u.id = resp.arg.id /\ ~u.is_active

\* C7: every logout clears the cookie; a presented token is revoked in the
\* database afterwards; without a cookie the answer is still "Logged out
\* successfully" and no row changes.
C7_LogoutAlwaysClears ==
    [][Request("logout") =>
        /\ resp'.cookie = "deleted"
        /\ resp'.arg # NoToken =>
              /\ \E r \in refresh_tokens' : r.token = resp'.arg
              /\ \A r \in refresh_tokens' : r.token = resp'.arg => r.revoked
        /\ resp'.arg = NoToken =>
              /\ resp'.code = "Logged out successfully"
              /\ refresh_tokens' = refresh_tokens]_vars

\* C8: every user created by /auth/register is stored as an active STUDENT,
\* whatever role the body carries and whatever the apu_id.
C8_RegisterStoresStudent ==
    (resp.op = "register" /\ resp.status = 201) =>
        \E u \in users :
            /\ u.id = resp.user
            /\ u.apu_id = resp.apu_id
            /\ u.role = STUDENT
            /\ u.is_active

\* C8 witness: a registration with a teacher's APU id and role "admin" in the
\* body was stored as a student
C8_Witness ==
    /\ resp.op = "register"
    /\ resp.status = 201
    /\ startswith(resp.apu_id, <<"T", "C">>)
    /\ resp.role = ADMIN
    /\ \E u \in users : u.id = resp.user /\ u.role = STUDENT

\* C9: POST /users with an e-mail or an APU id that is already in use is
\* refused by ensure_user_is_unique, before any insert, and leaves the table
\* unchanged.
C9_UniqueBeforeInsert ==
    [][(/\ Request("create_user")
        /\ \E u \in users :
              \/ u.apu_id = resp'.apu_id
              \/ (resp'.email # None /\ u.email = resp'.email))
       => (resp'.code = "UserAlreadyExistsException" /\ users' = users)]_vars

\* C10: delete_linked_repo removes a row only for its owner; a caller who is
\* not the owner gets 403, an unknown id gets 404, and both leave the table
\* unchanged.
C10_OnlyOwnerDeletes ==
    [][(Request("delete_repo") /\ resp'.user # 0) =>
        LET found == {r \in github_repositories : r.id = resp'.repo} IN
        /\ found = {} =>
              (resp'.status = 404 /\ github_repositories' = github_repositories)
        /\ \A r \in found :
              IF r.user_id = resp'.user
              THEN resp'.status = 200 /\ github_repositories' = github_repositories \ {r}
              ELSE resp'.status = 403 /\ github_repositories' = github_repositories
        /\ github_repositories' # github_repositories =>
              \E r \in found : r.user_id = resp'.user]_vars

\* C10 witness: a caller other than the owner was refused and the row is still
\* there
C10_Witness ==
    /\ resp.op = "delete_repo"
    /\ resp.status = 403
    /\ \E r \in github_repositories : r.id = resp.repo /\ r.user_id # resp.user

-----------------------------------------------------------------------------
(* Properties of the repository listing *)

\* the rows received so far by the client that follows next_cursor
RECURSIVE items_of(_)
items_of(responses) ==
    IF responses = <<>> THEN <<>>
    ELSE responses[1].items \o items_of(Tail(responses))

Received == items_of(seen)

\* the user and the filter of the listing that is being followed
Lister == CHOOSE u \in users : u.id = seen[1].user
Matching == {repo \in github_repositories : skills_where(seen[1].skills, repo)}

\* whether the repository shares a language or a framework with the user
Shares(user, repo) ==
    \/ repo.programming_languages \cap user.preferred_programming_languages # {}
    \/ repo.frameworks \cap user.preferred_frameworks # {}

\* a is listed before b in (score DESC, created_at DESC, id DESC)
ListedBefore(user, a, b) ==
    LET sa == IF has_preferences(user) /\ Shares(user, a) THEN 1 ELSE 0
        sb == IF has_preferences(user) /\ Shares(user, b) THEN 1 ELSE 0
    IN  \/ sa > sb
        \/ sa = sb /\ a.created_at > b.created_at
        \/ sa = sb /\ a.created_at = b.created_at /\ a.id > b.id

\* C11: following next_cursor from a request without cursor returns the
\* matching rows in (score DESC, created_at DESC, id DESC) order, no row twice
\* and none skipped; when next_cursor is null every matching row was returned.
C11_PaginationComplete ==
    seen # <<>> =>
        /\ \A i \in 1..Len(Received) : Received[i] \in Matching
        /\ \A i \in 1..Len(Received), j \in 1..Len(Received) :
              i < j => /\ Received[i] # Received[j]
                       /\ ListedBefore(Lister, Received[i], Received[j])
        /\ \A repo \in Matching :
              (\A i \in 1..Len(Received) : Received[i] # repo) =>
                  /\ \A i \in 1..Len(Received) : ListedBefore(Lister, Received[i], repo)
                  /\ following.next_cursor # NoCursor

\* C11 witness: a listing of three rows in more than one page was followed to
\* its end, two of the rows having the same created_at
C11_Witness ==
    /\ Len(seen) >= 2
    /\ following.next_cursor = NoCursor
    /\ Len(Received) = 3
    /\ \E i \in 1..3, j \in 1..3 :
          i # j /\ Received[i].created_at = Received[j].created_at

\* C12: with preferences every row that shares a language or framework with
\* them is listed before every row that shares none, over all pages; without
\* preferences the order is created_at DESC, id DESC; the score in next_cursor
\* is the score the query gives the page's last row.
C12_RelevanceRanking ==
    seen # <<>> =>
        /\ has_preferences(Lister) =>
              \A i \in 1..Len(Received), j \in 1..Len(Received) :
                  (Shares(Lister, Received[i]) /\ ~Shares(Lister, Received[j])) => i < j
        /\ ~has_preferences(Lister) =>
              \A i \in 1..Len(Received), j \in 1..Len(Received) :
                  i < j => \/ Received[i].created_at > Received[j].created_at
                           \/ /\ Received[i].created_at = Received[j].created_at
                              /\ Received[i].id > Received[j].id
        /\ \A p \in 1..Len(seen) :
              seen[p].next_cursor # NoCursor =>
                  split(seen[p].next_cursor)[1] =
                      <<IntTok(relevance_score(Lister, seen[p].items[Len(seen[p].items)]))>>

\* C12 witness: a row sharing a preference was listed on an earlier page than
\* a newer row sharing none
C12_Witness ==
    /\ Len(seen) >= 2
    /\ has_preferences(Lister)
    /\ \E i \in 1..Len(seen[1].items), j \in 1..Len(seen[2].items) :
          /\ Shares(Lister, seen[1].items[i])
          /\ ~Shares(Lister, seen[2].items[j])
          /\ seen[2].items[j].created_at > seen[1].items[i].created_at
    /\ seen[1].next_cursor[1] = IntTok(1)

\* the cursors the claim calls unparseable: one part, three parts with a score
\* that is no integer, or a time part that is not ISO
Unparseable(cursor) ==
    LET parts == split(cursor) IN
    \/ Len(parts) = 1
    \/ Len(parts) = 3 /\ (Len(parts[1]) # 1 \/ parts[1][1].k # "int")
    \/ Len(parts) = 3 /\ (Len(parts[2]) # 1 \/ parts[2][1].k # "iso")
    \/ Len(parts) = 2 /\ (Len(parts[1]) # 1 \/ parts[1][1].k # "iso")

\* C16: a request with an unparseable cursor is answered without error with
\* the rows and next_cursor of the request without cursor; a two-part
\* TIMESTAMP|ID cursor is read as score 0.
C16_BadCursorIgnored ==
    resp.op = "get_repos" =>
        LET user == CHOOSE u \in users : u.id = resp.user
            parts == split(resp.cursor)
        IN  /\ resp.status = 200
            /\ (resp.cursor # NoCursor /\ Unparseable(resp.cursor)) =>
                  /\ resp.items = db_repos(user, resp.limit, resp.skills, NoCursor)
                  /\ resp.next_cursor =
                        next_cursor(user, resp.limit,
                                    db_repos(user, resp.limit, resp.skills, NoCursor))
            /\ (Len(parts) = 2 /\ ~Unparseable(resp.cursor)) =>
                  /\ resp.items =
                        db_repos(user, resp.limit, resp.skills,
                                 <<IntTok(0), Bar>> \o resp.cursor)
                  /\ \A i \in 1..Len(resp.items) :
                        /\ ~(has_preferences(user) /\ Shares(user, resp.items[i]))
                        /\ resp.items[i].created_at <= parts[1][1].v

\* C16 witness: a cursor with a score that is no integer was answered with a
\* first page that the same cursor with score 0 would not have given
C16_Witness ==
    /\ resp.op = "get_repos"
    /\ resp.cursor = <<JunkTok, Bar, IsoTok(1), Bar, IdTok(1)>>
    /\ resp.items # <<>>
    /\ resp.items # db_repos(CHOOSE u \in users : u.id = resp.user, resp.limit,
                             resp.skills, <<IntTok(0), Bar, IsoTok(1), Bar, IdTok(1)>>)

-----------------------------------------------------------------------------
(* The catalogues: frameworks, programming_languages and university_courses
   controllers and services *)

\* ids left for catalogue rows after two accounts and their logins
MaxCatalogIds == MaxIds + 2

NotAllowed == "You are not allowed to access this endpoint"

\* the answer of a catalogue endpoint with the request it answers
CatalogResponse(op, token, status, code, id, name, course_code) ==
    [op |-> op, arg |-> token, status |-> status, code |-> code,
     user |-> token.id, id |-> id, name |-> name, course_code |-> course_code]

get_framework_by_name(name) == {row \in frameworks : row.name = name}
get_framework_by_id(id) == {row \in frameworks : row.id = id}

\* POST /frameworks: the answer and the table it leaves
create_framework_result(user, name) ==
    IF ~is_admin(user)
    THEN [status |-> 403, code |-> NotAllowed, table |-> frameworks]
    ELSE IF get_framework_by_name(name) # {}
    THEN [status |-> 409, code |-> "already exists", table |-> frameworks]
    ELSE [status |-> 201, code |-> "OK",
          table |-> frameworks \cup {[id |-> next_id + 1, name |-> name, added_by |-> user.id]}]

\* PUT /frameworks/{id}; the new name may break the unique index
update_framework_result(user, id, name) ==
    IF ~is_admin(user)
    THEN [status |-> 403, code |-> NotAllowed, table |-> frameworks]
    ELSE IF get_framework_by_id(id) = {}
    THEN [status |-> 404, code |-> "Framework not found", table |-> frameworks]
    ELSE LET row == CHOOSE r \in get_framework_by_id(id) : TRUE IN
         IF \E other \in get_framework_by_name(name) : other.id # id
         THEN [status |-> 500, code |-> "IntegrityError", table |-> frameworks]
         ELSE [status |-> 200, code |-> "OK",
               table |-> (frameworks \ {row}) \cup {[row EXCEPT !.name = name]}]

\* DELETE /frameworks/{id}
delete_framework_result(user, id) ==
    IF ~is_admin(user)
    THEN [status |-> 403, code |-> NotAllowed, table |-> frameworks]
    ELSE IF get_framework_by_id(id) = {}
    THEN [status |-> 404, code |-> "Framework not found", table |-> frameworks]
    ELSE [status |-> 204, code |-> "OK", table |-> frameworks \ get_framework_by_id(id)]

create_framework(token, name) ==
    /\ IF get_current_user_code(token) # "OK"
       THEN /\ resp' = CatalogResponse("create_framework", token, 401, get_current_user_code(token), 0, name, None)
            /\ UNCHANGED <<frameworks, next_id>>
       ELSE LET user == CHOOSE u \in get_user_by_id(token.id) : TRUE
                result == create_framework_result(user, name)
            IN  /\ result.status = 201 => next_id < MaxCatalogIds
                /\ next_id' = IF result.status = 201 THEN next_id + 1 ELSE next_id
                /\ frameworks' = result.table
                /\ resp' = CatalogResponse("create_framework", token, result.status, result.code, 0, name, None)
    /\ UNCHANGED <<users, refresh_tokens, github_repositories, now, issued, programming_languages, university_courses, seen>>

update_framework(token, id, name) ==
    /\ IF get_current_user_code(token) # "OK"
       THEN /\ resp' = CatalogResponse("update_framework", token, 401, get_current_user_code(token), id, name, None)
            /\ UNCHANGED frameworks
       ELSE LET user == CHOOSE u \in get_user_by_id(token.id) : TRUE
                result == update_framework_result(user, id, name)
            IN  /\ frameworks' = result.table
                /\ resp' = CatalogResponse("update_framework", token, result.status, result.code, id, name, None)
    /\ UNCHANGED <<users, refresh_tokens, github_repositories, now, next_id, issued, programming_languages, university_courses, seen>>

delete_framework(token, id) ==
    /\ IF get_current_user_code(token) # "OK"
       THEN /\ resp' = CatalogResponse("delete_framework", token, 401, get_current_user_code(token), id, None, None)
            /\ UNCHANGED frameworks
       ELSE LET user == CHOOSE u \in get_user_by_id(token.id) : TRUE
                result == delete_framework_result(user, id)
            IN  /\ frameworks' = result.table
                /\ resp' = CatalogResponse("delete_framework", token, result.status, result.code, id, None, None)
    /\ UNCHANGED <<users, refresh_tokens, github_repositories, now, next_id, issued, programming_languages, university_courses, seen>>

get_programming_language_by_name(name) == {row \in programming_languages : row.name = name}
get_programming_language_by_id(id) == {row \in programming_languages : row.id = id}

\* POST /programming_languages: the answer and the table it leaves
create_programming_language_result(user, name) ==
    IF ~is_admin(user)
    THEN [status |-> 403, code |-> NotAllowed, table |-> programming_languages]
    ELSE IF get_programming_language_by_name(name) # {}
    THEN [status |-> 409, code |-> "already exists", table |-> programming_languages]
    ELSE [status |-> 201, code |-> "OK",
          table |-> programming_languages \cup {[id |-> next_id + 1, name |-> name, added_by |-> user.id]}]

\* PUT /programming_languages/{id}; the new name may break the unique index
update_programming_language_result(user, id, name) ==
    IF ~is_admin(user)
    THEN [status |-> 403, code |-> NotAllowed, table |-> programming_languages]
    ELSE IF get_programming_language_by_id(id) = {}
    THEN [status |-> 404, code |-> "Programming Language not found", table |-> programming_languages]
    ELSE LET row == CHOOSE r \in get_programming_language_by_id(id) : TRUE IN
         IF \E other \in get_programming_language_by_name(name) : other.id # id
         THEN [status |-> 500, code |-> "IntegrityError", table |-> programming_languages]
         ELSE [status |-> 200, code |-> "OK",
               table |-> (programming_languages \ {row}) \cup {[row EXCEPT !.name = name]}]

\* DELETE /programming_languages/{id}
delete_programming_language_result(user, id) ==
    IF ~is_admin(user)
    THEN [status |-> 403, code |-> NotAllowed, table |-> programming_languages]
    ELSE IF get_programming_language_by_id(id) = {}
    THEN [status |-> 404, code |-> "Programming Language not found", table |-> programming_languages]
    ELSE [status |-> 204, code |-> "OK", table |-> programming_languages \ get_programming_language_by_id(id)]

create_programming_language(token, name) ==
    /\ IF get_current_user_code(token) # "OK"
       THEN /\ resp' = CatalogResponse("create_programming_language", token, 401, get_current_user_code(token), 0, name, None)
            /\ UNCHANGED <<programming_languages, next_id>>
       ELSE LET user == CHOOSE u \in get_user_by_id(token.id) : TRUE
                result == create_programming_language_result(user, name)
            IN  /\ result.status = 201 => next_id < MaxCatalogIds
                /\ next_id' = IF result.status = 201 THEN next_id + 1 ELSE next_id
                /\ programming_languages' = result.table
                /\ resp' = CatalogResponse("create_programming_language", token, result.status, result.code, 0, name, None)
    /\ UNCHANGED <<users, refresh_tokens, github_repositories, now, issued, frameworks, university_courses, seen>>

update_programming_language(token, id, name) ==
    /\ IF get_current_user_code(token) # "OK"
       THEN /\ resp' = CatalogResponse("update_programming_language", token, 401, get_current_user_code(token), id, name, None)
            /\ UNCHANGED programming_languages
       ELSE LET user == CHOOSE u \in get_user_by_id(token.id) : TRUE
                result == update_programming_language_result(user, id, name)
            IN  /\ programming_languages' = result.table
                /\ resp' = CatalogResponse("update_programming_language", token, result.status, result.code, id, name, None)
    /\ UNCHANGED <<users, refresh_tokens, github_repositories, now, next_id, issued, frameworks, university_courses, seen>>

delete_programming_language(token, id) ==
    /\ IF get_current_user_code(token) # "OK"
       THEN /\ resp' = CatalogResponse("delete_programming_language", token, 401, get_current_user_code(token), id, None, None)
            /\ UNCHANGED programming_languages
       ELSE LET user == CHOOSE u \in get_user_by_id(token.id) : TRUE
                result == delete_programming_language_result(user, id)
            IN  /\ programming_languages' = result.table
                /\ resp' = CatalogResponse("delete_programming_language", token, result.status, result.code, id, None, None)
    /\ UNCHANGED <<users, refresh_tokens, github_repositories, now, next_id, issued, frameworks, university_courses, seen>>

get_course_by_id(id) == {row \in university_courses : row.id = id}

\* the rows of which .first() returns one
get_course_by_name_or_code(name, code) ==
    {row \in university_courses : row.name = name \/ row.code = code}

\* create_course with the duplicate check before the admin check
create_course_result_duplicate_first(user, name, code) ==
    IF get_course_by_name_or_code(name, code) # {}
    THEN [status |-> 409, code |-> "already exists", table |-> university_courses]
    ELSE IF ~is_admin(user)
    THEN [status |-> 403, code |-> NotAllowed, table |-> university_courses]
    ELSE [status |-> 201, code |-> "OK",
          table |-> university_courses \cup {[id |-> next_id + 1, name |-> name, code |-> code]}]

\* POST /courses: the answer and the table it leaves
create_course_result(user, name, code) ==
    IF ~is_admin(user)
    THEN [status |-> 403, code |-> NotAllowed, table |-> university_courses]
    ELSE IF get_course_by_name_or_code(name, code) # {}
    THEN [status |-> 409, code |-> "already exists", table |-> university_courses]
    ELSE [status |-> 201, code |-> "OK",
          table |-> university_courses \cup {[id |-> next_id + 1, name |-> name, code |-> code]}]

\* PUT /courses/{id}: the answers it can give; .first() picks any of the rows
\* with the name or the code, and when it picks the course itself a clash with
\* another row is left to the unique indexes
update_course_results(user, id, name, code) ==
    IF ~is_admin(user)
    THEN {[status |-> 403, code |-> NotAllowed, table |-> university_courses]}
    ELSE IF get_course_by_id(id) = {}
    THEN {[status |-> 404, code |-> "University Course not found", table |-> university_courses]}
    ELSE LET course == CHOOSE r \in get_course_by_id(id) : TRUE
             matches == get_course_by_name_or_code(name, code)
         IN  {[status |-> 409, code |-> "already exists", table |-> university_courses] :
                  potential_conflict \in {m \in matches : m.id # course.id}}
             \cup
             (IF matches # {} /\ course \notin matches THEN {}
              ELSE IF \E other \in matches : other.id # course.id
              THEN {[status |-> 500, code |-> "IntegrityError", table |-> university_courses]}
              ELSE {[status |-> 200, code |-> "OK",
                     table |-> (university_courses \ {course}) \cup
                               {[course EXCEPT !.name = name, !.code = code]}]})

\* DELETE /courses/{id}
delete_course_result(user, id) ==
    IF ~is_admin(user)
    THEN [status |-> 403, code |-> NotAllowed, table |-> university_courses]
    ELSE IF get_course_by_id(id) = {}
    THEN [status |-> 404, code |-> "University Course not found", table |-> university_courses]
    ELSE [status |-> 204, code |-> "OK", table |-> university_courses \ get_course_by_id(id)]

create_course(token, name, code) ==
    /\ IF get_current_user_code(token) # "OK"
       THEN /\ resp' = CatalogResponse("create_course", token, 401, get_current_user_code(token), 0, name, code)
            /\ UNCHANGED <<university_courses, next_id>>
       ELSE LET user == CHOOSE u \in get_user_by_id(token.id) : TRUE
                result == create_course_result(user, name, code)
            IN  /\ result.status = 201 => next_id < MaxCatalogIds
                /\ next_id' = IF result.status = 201 THEN next_id + 1 ELSE next_id
                /\ university_courses' = result.table
                /\ resp' = CatalogResponse("create_course", token, result.status, result.code, 0, name, code)
    /\ UNCHANGED <<users, refresh_tokens, github_repositories, now, issued, frameworks, programming_languages, seen>>

update_course(token, id, name, code) ==
    /\ IF get_current_user_code(token) # "OK"
       THEN /\ resp' = CatalogResponse("update_course", token, 401, get_current_user_code(token), id, name, code)
            /\ UNCHANGED university_courses
       ELSE LET user == CHOOSE u \in get_user_by_id(token.id) : TRUE IN
            \E result \in update_course_results(user, id, name, code) :
                /\ university_courses' = result.table
                /\ resp' = CatalogResponse("update_course", token, result.status, result.code, id, name, code)
    /\ UNCHANGED <<users, refresh_tokens, github_repositories, now, next_id, issued, frameworks, programming_languages, seen>>

delete_course(token, id) ==
    /\ IF get_current_user_code(token) # "OK"
       THEN /\ resp' = CatalogResponse("delete_course", token, 401, get_current_user_code(token), id, None, None)
            /\ UNCHANGED university_courses
       ELSE LET user == CHOOSE u \in get_user_by_id(token.id) : TRUE
                result == delete_course_result(user, id)
            IN  /\ university_courses' = result.table
                /\ resp' = CatalogResponse("delete_course", token, result.status, result.code, id, None, None)
    /\ UNCHANGED <<users, refresh_tokens, github_repositories, now, next_id, issued, frameworks, programming_languages, seen>>

\* an administrator and a student, who log in and call the nine endpoints
CatalogNames == {"n1", "n2"}
CourseCodes == {"c1", "c2"}
\* the ids of a table and one id that no row has
CatalogIds(table) == {row.id : row \in table} \cup {next_id + 1}

CatalogNext ==
    \/ users = {} /\ create_user_endpoint(AD1, None, "pw1", ADMIN, None)
    \/ Cardinality(users) = 1 /\ create_user_endpoint(TP1, None, "pw1", STUDENT, None)
    \/ \E apu_id \in {TP1, AD1} :
          /\ Cardinality(users) = 2
          /\ \A t \in issued : t.sub # apu_id
          /\ login_for_access_token(apu_id, "pw1")
    \/ \E t \in AccessTokens \cup {Garbage}, name \in CatalogNames : create_framework(t, name)
    \/ \E t \in AccessTokens, id \in CatalogIds(frameworks), name \in CatalogNames :
          update_framework(t, id, name)
    \/ \E t \in AccessTokens, id \in CatalogIds(frameworks) : delete_framework(t, id)
    \/ \E t \in AccessTokens, name \in CatalogNames : create_programming_language(t, name)
    \/ \E t \in AccessTokens, id \in CatalogIds(programming_languages), name \in CatalogNames :
          update_programming_language(t, id, name)
    \/ \E t \in AccessTokens, id \in CatalogIds(programming_languages) :
          delete_programming_language(t, id)
    \/ \E t \in AccessTokens, name \in CatalogNames, code \in CourseCodes :
          create_course(t, name, code)
    \/ \E t \in AccessTokens, id \in CatalogIds(university_courses), name \in CatalogNames,
          code \in CourseCodes :
          update_course(t, id, name, code)
    \/ \E t \in AccessTokens, id \in CatalogIds(university_courses) : delete_course(t, id)

CatalogSpec == Init /\ [][CatalogNext]_vars

-----------------------------------------------------------------------------
(* Dashboard: github/service.py get_dashboard_stats *)

MaxDashRepos == 6     \* rows of github_repositories in the dashboard
TopRepos == 5         \* sorted_by_stars[:5]

LanguageNames == <<"python", "go", "rust", "java", "c", "ruby", "php", "perl">>

\* NULL in an integer column
NoCount == -1

\* x or 0
or_0(x) == IF x = NoCount THEN 0 ELSE x

\* r.repository_language or "Unknown"
lang_of(r) == IF r.repository_language = None THEN "Unknown" ELSE r.repository_language

\* select(GithubRepository).where(user_id == user_id): the rows in the order
\* the database returns them, which no ORDER BY fixes; by id, either way
repos_of(user_id, order) ==
    LET rows == {r \in github_repositories : r.user_id = user_id}
        n == Cardinality(rows)
    IN  [i \in 1..n |->
            CHOOSE r \in rows :
                IF order = "asc"
                THEN Cardinality({q \in rows : q.id < r.id}) = i - 1
                ELSE Cardinality({q \in rows : q.id > r.id}) = i - 1]

\* sum(f(r) for r in repos)
RECURSIVE sum(_)
sum(numbers) ==
    IF numbers = <<>> THEN 0 ELSE numbers[1] + sum(Tail(numbers))

\* list.sort(key=..., reverse=True) and sorted(..., reverse=True): stable,
\* equal keys keep their order
sorted_reverse(seq, keys) ==
    LET n == Len(seq)
        rank(j) == 1 + Cardinality({m \in 1..n :
                        keys[m] > keys[j] \/ (keys[m] = keys[j] /\ m < j)})
    IN  [i \in 1..n |-> seq[CHOOSE j \in 1..n : rank(j) = i]]

\* language_map as a list of {"name", "value"} in insertion order
language_map(repos) ==
    LET n == Len(repos)
        firsts == {j \in 1..n : \A m \in 1..(j - 1) : lang_of(repos[m]) # lang_of(repos[j])}
        nth(i) == CHOOSE j \in firsts : Cardinality({m \in firsts : m < j}) = i - 1
    IN  [i \in 1..Cardinality(firsts) |->
            [name |-> lang_of(repos[nth(i)]),
             value |-> Cardinality({m \in 1..n : lang_of(repos[m]) = lang_of(repos[nth(i)])})]]

language_distribution(repos) ==
    LET distribution == language_map(repos)
    IN  sorted_reverse(distribution, [i \in 1..Len(distribution) |-> distribution[i].value])

top_5_repos(repos) ==
    LET sorted_by_stars ==
            sorted_reverse(repos, [i \in 1..Len(repos) |-> or_0(repos[i].stargazers_count)])
    IN  SubSeq(sorted_by_stars, 1, IF Len(repos) < TopRepos THEN Len(repos) ELSE TopRepos)

top_repos_data(repos) ==
    LET top == top_5_repos(repos)
    IN  [i \in 1..Len(top) |->
            [name |-> top[i].name,
             stars |-> or_0(top[i].stargazers_count),
             forks |-> or_0(top[i].forks_count),
             issues |-> or_0(top[i].open_issues_count)]]

dashboard_stats(user_id, order) ==
    LET repos == repos_of(user_id, order)
        n == Len(repos)
    IN  IF repos = <<>>
        THEN [kpi |-> [total_stars |-> 0, total_forks |-> 0, total_issues |-> 0,
                       total_repos |-> 0, total_subscribers |-> 0],
              charts |-> [languages |-> <<>>, top_repos |-> <<>>]]
        ELSE [kpi |-> [total_stars |-> sum([i \in 1..n |-> or_0(repos[i].stargazers_count)]),
                       total_forks |-> sum([i \in 1..n |-> or_0(repos[i].forks_count)]),
                       total_issues |-> sum([i \in 1..n |-> or_0(repos[i].open_issues_count)]),
                       total_repos |-> n,
                       total_subscribers |-> sum([i \in 1..n |-> or_0(repos[i].subscribers_count)])],
              charts |-> [languages |-> language_distribution(repos),
                          top_repos |-> top_repos_data(repos)]]

\* GET /github/dashboard-stats for the authenticated user
get_dashboard_stats(user, order) ==
    /\ resp' = [op |-> "dashboard", user |-> user.id, order |-> order, status |-> 200,
                body |-> dashboard_stats(user.id, order)]
    /\ UNCHANGED <<users, refresh_tokens, github_repositories, now, next_id, issued,
                   frameworks, programming_languages, university_courses, seen>>

\* a repository row of the dashboard: a language of its own, a shared one or
\* none; stars growing, falling or unset
DashRepo(i, user_id, language, stars) ==
    [id |-> i, user_id |-> user_id, name |-> i,
     repository_language |-> language,
     stargazers_count |-> CASE stars = "up" -> i
                            [] stars = "down" -> MaxDashRepos + 1 - i
                            [] OTHER -> NoCount,
     forks_count |-> 1, open_issues_count |-> 0, subscribers_count |-> NoCount]

DashInit ==
    /\ users = {[id |-> 1, is_active |-> TRUE], [id |-> 2, is_active |-> TRUE]}
    /\ \E n \in 0..MaxDashRepos, stars \in {"up", "down", "unset"} :
       \E owner \in [1..n -> {1, 2}],
          language \in [1..n -> {"own", "python", "none"}] :
          /\ \A i \in 2..n : language[i] # "none"
          /\ github_repositories =
                {DashRepo(i, owner[i],
                          CASE language[i] = "own" -> LanguageNames[i + 1]
                            [] language[i] = "python" -> "python"
                            [] OTHER -> None,
                          stars) : i \in 1..n}
    /\ refresh_tokens = {}
    /\ now = 0
    /\ next_id = 1
    /\ issued = {}
    /\ frameworks = {}
    /\ programming_languages = {}
    /\ university_courses = {}
    /\ seen = <<>>
    /\ resp = [op |-> "none"]

DashNext ==
    \E user \in users, order \in {"asc", "desc"} : get_dashboard_stats(user, order)

DashSpec == DashInit /\ [][DashNext]_vars

\* C13: the dashboard lists at most 5 languages by descending count and at
\* most 5 repositories by descending stars; without repositories every KPI is
\* 0 and both lists are empty.
C13_DashboardTop5 ==
    resp.op = "dashboard" =>
        LET languages == resp.body.charts.languages
            top_repos == resp.body.charts.top_repos
            mine == {r \in github_repositories : r.user_id = resp.user}
        IN  /\ Len(languages) <= 5
            /\ Len(top_repos) <= 5
            /\ \A i \in 1..Len(languages), j \in 1..Len(languages) :
                  i < j => languages[i].value >= languages[j].value
            /\ \A i \in 1..Len(top_repos), j \in 1..Len(top_repos) :
                  i < j => top_repos[i].stars >= top_repos[j].stars
            /\ mine = {} =>
                  /\ languages = <<>>
                  /\ top_repos = <<>>
                  /\ \A k \in DOMAIN resp.body.kpi : resp.body.kpi[k] = 0

-----------------------------------------------------------------------------
(* Properties of the catalogues *)

CatalogWrites ==
    {"create_framework", "update_framework", "delete_framework",
     "create_programming_language", "update_programming_language",
     "delete_programming_language",
     "create_course", "update_course", "delete_course"}

\* C14: a create, update or delete of a framework, programming language or
\* course by an authenticated user who is not an admin is answered 403 and
\* leaves the three tables as they were, whether or not the id exists or the
\* name is taken; no other caller gets past to a 404, 409 or a write.
C14_CatalogWritesAdminOnly ==
    [][(resp'.op \in CatalogWrites /\ resp'.status # 401) =>
           LET caller == CHOOSE u \in users : u.id = resp'.arg.id IN
           IF caller.role # ADMIN
           THEN /\ resp'.status = 403
                /\ UNCHANGED <<frameworks, programming_languages, university_courses>>
           ELSE resp'.status # 403]_vars

\* C14 witness: a student's POST /courses with the name of an existing course
\* was answered 403
C14_Witness ==
    /\ resp.op = "create_course"
    /\ resp.status = 403
    /\ \E u \in users : u.id = resp.user /\ u.role = STUDENT
    /\ \E course \in university_courses : course.name = resp.name

-----------------------------------------------------------------------------
(* GitHub account linking: user/controller.py link_github_account,
   unlink_my_github_account, unlink_github_account_by_id, and the endpoints of
   github/controller.py and user/controller.py that an account without a GitHub
   token may call *)

TokenRequired == "GitHub access token required"

\* what exchange_code_for_token and get_github_user_profile return for the
\* codes a client can send: one GitHub account, authorised twice
GithubProfiles ==
    {[token |-> "gho_2", id |-> "gh100", login |-> "octo", avatar_url |-> "url1"],
     [token |-> "gho_3", id |-> "gh100", login |-> "octo", avatar_url |-> None]}

\* exchange_code_for_token raises AuthenticationError
ExchangeFailed == [token |-> None, id |-> None, login |-> None, avatar_url |-> None]

\* the four fields as unlink leaves them
unlinked(user) ==
    [user EXCEPT !.github_access_token = None, !.github_id = None,
                 !.github_username = None, !.github_avatar_url = None]

\* if not user.github_access_token
no_github_token(user) == user.github_access_token = None

\* POST /users/me/github/link: GitHub refuses the code, or the profile is
\* stored unless another row has the github_id or the github_username
link_github_account(token, exchange) ==
    /\ IF get_current_user_code(token) # "OK"
       THEN /\ resp' = Response("link_github", token, 401, get_current_user_code(token))
            /\ UNCHANGED users
       ELSE LET user == CHOOSE u \in get_user_by_id(token.id) : TRUE IN
            IF exchange = ExchangeFailed
            THEN /\ resp' = [Response("link_github", token, 401, "AuthenticationError")
                                EXCEPT !.user = user.id]
                 /\ UNCHANGED users
            ELSE IF \E other \in users \ {user} :
                        \/ other.github_id = exchange.id
                        \/ other.github_username = exchange.login
            THEN /\ resp' = [Response("link_github", token, 500, "IntegrityError")
                                EXCEPT !.user = user.id]
                 /\ UNCHANGED users
            ELSE /\ users' = (users \ {user}) \cup
                        {[user EXCEPT !.github_access_token = exchange.token,
                                      !.github_id = exchange.id,
                                      !.github_username = exchange.login,
                                      !.github_avatar_url = exchange.avatar_url]}
                 /\ resp' = [Response("link_github", token, 200,
                                      "GitHub account linked successfully")
                                EXCEPT !.user = user.id]
    /\ UNCHANGED <<refresh_tokens, github_repositories, now, next_id, issued,
                   frameworks, programming_languages, university_courses, seen>>

\* GET /users/me/github/unlink; revoke_access_token returns or raises what
\* GitHub answered
unlink_my_github_account(token, revoke) ==
    /\ IF get_current_user_code(token) # "OK"
       THEN /\ resp' = Response("unlink_me", token, 401, get_current_user_code(token))
            /\ UNCHANGED users
       ELSE LET user == CHOOSE u \in get_user_by_id(token.id) : TRUE IN
            IF ~no_github_token(user) /\ revoke = "raises"
            THEN /\ resp' = [Response("unlink_me", token, 429, "HTTPException")
                                EXCEPT !.user = user.id]
                 /\ UNCHANGED users
            ELSE /\ users' = (users \ {user}) \cup {unlinked(user)}
                 /\ resp' = [Response("unlink_me", token, 200,
                                      "GitHub account unlinked successfully")
                                EXCEPT !.user = user.id]
    /\ UNCHANGED <<refresh_tokens, github_repositories, now, next_id, issued,
                   frameworks, programming_languages, university_courses, seen>>

\* GET /users/{user_id}/github/unlink
unlink_github_account_by_id(token, user_id, revoke) ==
    /\ IF get_current_user_code(token) # "OK"
       THEN /\ resp' = Response("unlink_by_id", token, 401, get_current_user_code(token))
            /\ UNCHANGED users
       ELSE LET user == CHOOSE u \in get_user_by_id(token.id) : TRUE IN
            IF ~is_admin(user)
            THEN /\ resp' = Response("unlink_by_id", token, 403, "NotAllowed")
                 /\ UNCHANGED users
            ELSE IF get_user_by_id(user_id) = {}
            THEN /\ resp' = Response("unlink_by_id", token, 404, "User not found")
                 /\ UNCHANGED users
            ELSE LET db_user == CHOOSE u \in get_user_by_id(user_id) : TRUE IN
                 IF ~no_github_token(db_user) /\ revoke = "raises"
                 THEN /\ resp' = [Response("unlink_by_id", token, 429, "HTTPException")
                                     EXCEPT !.user = user_id]
                      /\ UNCHANGED users
                 ELSE /\ users' = (users \ {db_user}) \cup {unlinked(db_user)}
                      /\ resp' = [Response("unlink_by_id", token, 200,
                                           "GitHub account unlinked successfully")
                                     EXCEPT !.user = user_id]
    /\ UNCHANGED <<refresh_tokens, github_repositories, now, next_id, issued,
                   frameworks, programming_languages, university_courses, seen>>

\* GET /github/repos: past the token check the service is called with the
\* token string in the place of the user and fails on its first attribute
get_local_repos(token) ==
    /\ IF get_current_user_code(token) # "OK"
       THEN resp' = Response("get_local_repos", token, 401, get_current_user_code(token))
       ELSE LET user == CHOOSE u \in get_user_by_id(token.id) : TRUE IN
            IF no_github_token(user)
            THEN resp' = Response("get_local_repos", token, 401, TokenRequired)
            ELSE resp' = Response("get_local_repos", token, 500, "AttributeError")
    /\ UNCHANGED <<users, refresh_tokens, github_repositories, now, next_id, issued,
                   frameworks, programming_languages, university_courses, seen>>

\* GET /users/me/github/repos: past the token check, whatever GitHub answers
get_github_repos(token, fetched) ==
    /\ IF get_current_user_code(token) # "OK"
       THEN resp' = Response("get_github_repos", token, 401, get_current_user_code(token))
       ELSE LET user == CHOOSE u \in get_user_by_id(token.id) : TRUE IN
            IF no_github_token(user)
            THEN resp' = Response("get_github_repos", token, 401, TokenRequired)
            ELSE resp' = Response("get_github_repos", token,
                                  IF fetched THEN 200 ELSE 401,
                                  IF fetched THEN "OK" ELSE "GitHub token invalid")
    /\ UNCHANGED <<users, refresh_tokens, github_repositories, now, next_id, issued,
                   frameworks, programming_languages, university_courses, seen>>

\* GET /github/repos/skills: the two tables, for any authenticated user
get_all_skills(token) ==
    /\ IF get_current_user_code(token) # "OK"
       THEN resp' = Response("get_all_skills", token, 401, get_current_user_code(token))
       ELSE resp' = Response("get_all_skills", token, 200, "OK")
    /\ UNCHANGED <<users, refresh_tokens, github_repositories, now, next_id, issued,
                   frameworks, programming_languages, university_courses, seen>>

\* GET /github/repos/programming_languages
get_all_programming_languages(token) ==
    /\ IF get_current_user_code(token) # "OK"
       THEN resp' = Response("get_all_programming_languages", token, 401,
                             get_current_user_code(token))
       ELSE resp' = Response("get_all_programming_languages", token, 200, "OK")
    /\ UNCHANGED <<users, refresh_tokens, github_repositories, now, next_id, issued,
                   frameworks, programming_languages, university_courses, seen>>

\* GET /github/repos/frameworks
get_all_frameworks(token) ==
    /\ IF get_current_user_code(token) # "OK"
       THEN resp' = Response("get_all_frameworks", token, 401, get_current_user_code(token))
       ELSE resp' = Response("get_all_frameworks", token, 200, "OK")
    /\ UNCHANGED <<users, refresh_tokens, github_repositories, now, next_id, issued,
                   frameworks, programming_languages, university_courses, seen>>

\* An administrator and a student, both created with a GitHub token, who log
\* in, unlink, link again and call the endpoints.
LinkNext ==
    \/ users = {} /\ create_user_endpoint(AD1, None, "pw1", ADMIN, "gho_1")
    \/ Cardinality(users) = 1 /\ create_user_endpoint(TP1, None, "pw1", STUDENT, "gho_1")
    \/ \E apu_id \in {TP1, AD1} :
          /\ Cardinality(users) = 2
          /\ \A t \in issued : t.sub # apu_id
          /\ login_for_access_token(apu_id, "pw1")
    \/ \E t \in AccessTokens \cup {Garbage},
          exchange \in GithubProfiles \cup {ExchangeFailed} :
          link_github_account(t, exchange)
    \/ \E t \in AccessTokens, revoke \in {"returns", "raises"} :
          unlink_my_github_account(t, revoke)
    \/ \E t \in AccessTokens, user_id \in UserIds, revoke \in {"returns", "raises"} :
          unlink_github_account_by_id(t, user_id, revoke)
    \/ \E t \in AccessTokens : get_local_repos(t)
    \/ \E t \in AccessTokens, fetched \in BOOLEAN : get_github_repos(t, fetched)
    \/ \E t \in AccessTokens, id \in RepoIds : delete_local_repo(t, id)
    \/ \E t \in AccessTokens : get_all_skills(t)
    \/ \E t \in AccessTokens : get_all_programming_languages(t)
    \/ \E t \in AccessTokens : get_all_frameworks(t)
    \/ \E t \in AccessTokens, user \in users :
          /\ get_current_user_code(t) = "OK"
          /\ user.id = t.id
          /\ get_dashboard_stats(user, "asc")

LinkSpec == Init /\ [][LinkNext]_vars

\* the endpoints whose documentation says they require a GitHub access token
RequireGithubToken ==
    {"get_local_repos", "get_github_repos", "delete_repo", "get_all_skills",
     "get_all_programming_languages", "get_all_frameworks", "dashboard"}

\* C15: a successful unlink leaves the target's four GitHub fields null, and
\* an authenticated user whose account is unlinked is answered 401 'GitHub
\* access token required' by every endpoint that requires a GitHub token.
C15_UnlinkedIsRefused ==
    [][/\ (resp'.op \in {"unlink_me", "unlink_by_id"} /\ resp'.status = 200) =>
             \E target \in users' :
                 /\ target.id = resp'.user
                 /\ target.github_access_token = None
                 /\ target.github_id = None
                 /\ target.github_username = None
                 /\ target.github_avatar_url = None
       /\ (resp'.op \in RequireGithubToken /\ now' = now) =>
             LET caller_id == IF resp'.op = "dashboard" THEN resp'.user ELSE resp'.arg.id
                 authenticated == resp'.op = "dashboard" \/ get_current_user_code(resp'.arg) = "OK"
             IN  \A caller \in users :
                     (authenticated /\ caller.id = caller_id
                        /\ caller.github_access_token = None) =>
                         (resp'.status = 401 /\ resp'.code = TokenRequired)]_vars

====
